---- MODULE Spec2Model ----
(***************************************************************************)
(* Orchestration graph of the compliance analyst agent                    *)
(* (src/backend/agent: state.py, nodes.py, graph.py, llm_client.py,        *)
(* tools.py; src/backend/governance/engine.py).                            *)
(*                                                                         *)
(* One turn of the compiled LangGraph is modelled: `state` is the          *)
(* AgentState dict, `pc` the node the executor runs next, and every node   *)
(* is one action that applies the node function, merges the partial update *)
(* per key and evaluates the (conditional) edge leaving the node.          *)
(***************************************************************************)
EXTENDS Integers, Sequences, FiniteSets, TLC

VARIABLES
    entry,      \* how the turn was started: "run_graph" | "stream_graph" | "invoke"
    state,      \* the AgentState dict (state.py)
    pc,         \* next node to run, "END" (graph finished) or "RAISED" (a node raised)
    trace,      \* history: the nodes executed so far in this turn, in order
    calls,      \* history: the external calls issued so far in this turn, in order,
                \* a call that raised being followed by "raised"
    events,     \* the chunks stream_graph has yielded to its consumer, in order
    llm_cache   \* the keys of the module-level dict _llm_cache (nodes.py), which
                \* every turn served by the process reads and writes

vars == <<entry, state, pc, trace, calls, events, llm_cache>>

----
(* Optional values: Python None / a value *)
None == <<>>
Some(x) == <<x>>
IsNone(o) == o = <<>>
Val(o) == o[1]
\* Python truthiness of an Optional[list] / Optional[dict]
Truthy(o) == ~IsNone(o) /\ Val(o) # <<>>

----
(* Python string operations used by the nodes *)

\* `k in s` on strings
Contains(k, s) == \E i \in 0..(Len(s) - Len(k)) : SubSeq(s, i + 1, i + Len(k)) = k

\* any(k in s for k in keywords)
AnyIn(keywords, s) == \E k \in keywords : Contains(k, s)

UpperCase == <<"A","B","C","D","E","F","G","H","I","J","K","L","M",
               "N","O","P","Q","R","S","T","U","V","W","X","Y","Z">>
LowerCase == <<"a","b","c","d","e","f","g","h","i","j","k","l","m",
               "n","o","p","q","r","s","t","u","v","w","x","y","z">>

LowerChar(c) ==
    IF \E i \in 1..26 : UpperCase[i] = c
    THEN LowerCase[CHOOSE i \in 1..26 : UpperCase[i] = c]
    ELSE c

\* str.lower()
RECURSIVE LowerFrom(_, _)
LowerFrom(s, i) ==
    IF i > Len(s) THEN ""
    ELSE LowerChar(SubSeq(s, i, i)) \o LowerFrom(s, i + 1)

LowerOf(s) == LowerFrom(s, 1)

\* len(s.split()): the number of maximal runs of non-blank characters
RECURSIVE WordsFrom(_, _)
WordsFrom(s, i) ==
    IF i > Len(s) THEN 0
    ELSE IF SubSeq(s, i, i) # " " /\ (i = Len(s) \/ SubSeq(s, i + 1, i + 1) = " ")
    THEN 1 + WordsFrom(s, i + 1)
    ELSE WordsFrom(s, i + 1)

WordsOf(s) == WordsFrom(s, 1)

----
(* Bounds of the model *)
MaxSelections == 1      \* user_selections has at most this many entries
MaxToolCalls == 1       \* a caller-built state has at most this many tool_calls
MaxErrors == 1          \* the rule check reports at most this many violations
MaxOptions == 5         \* the clarify sub-call returns at most this many options

(* Program constants *)
MaxRetries == 3         \* route_after_validation: retry_count < 3
KeepOptions == 4        \* node_clarify: result.options[:4]
GeneralMaxWords == 10   \* node_guardrail: len(query.split()) < 10
NumModels == 3          \* get_llm_client: models list of the Groq provider

----
(* Inputs *)
Queries == {
    "how can i hide a data breach",
    "Is there a LOOPHOLE",
    "hello, what can you do?",
    "hello i would like to know what rules apply to us from today on",
    "what is personal data",
    "we lost patient data",
    "can we refuse to erase tax records",
    "what is the fine for a breach" }

\* query.lower() and len(query.split()), computed once per query text
LowerTable == [q \in Queries |-> LowerOf(q)]
WordTable == [q \in Queries |-> WordsOf(q)]
Lower(s) == IF s \in Queries THEN LowerTable[s] ELSE LowerOf(s)
WordCount(s) == IF s \in Queries THEN WordTable[s] ELSE WordsOf(s)

Domains == {"GDPR", "FDA", "CCPA", "HIPAA"}

\* (query, domain) pairs a turn is started with: every query under GDPR and
\* three of them under each other domain
Turns ==
    (Queries \X {"GDPR"})
        \cup ({"how can i hide a data breach", "what is personal data",
                "we lost patient data"} \X (Domains \ {"GDPR"}))

Entries == {"run_graph", "stream_graph", "invoke"}

SelectionTexts == <<"Data was encrypted", "Additional context: 500 records",
                    "Authority was notified", "We are the controller">>
SelectionLists == { SubSeq(SelectionTexts, 1, n) : n \in 0..MaxSelections }

\* tool_calls entries: a registered tool, an unregistered one, a registered one
\* called with a keyword argument it does not accept
ToolRequests ==
    << [name |-> "search_regulations", arguments |-> "query"],
       [name |-> "unknown_tool", arguments |-> "query"],
       [name |-> "search_regulations", arguments |-> "bad_keyword"] >>

\* non-empty pending lists: runs of at most MaxToolCalls consecutive requests
ToolCallLists ==
    { SubSeq(ToolRequests, w[1], w[2]) :
        w \in { v \in (1..Len(ToolRequests)) \X (1..Len(ToolRequests)) :
                    v[2] >= v[1] /\ v[2] - v[1] < MaxToolCalls } }

----
(* state.py: AgentState, and the per-key merge of a node's partial update *)

AgentState(user_query, domain, thread_id, user_selections, tool_calls) ==
    [ messages              |-> <<>>,
      user_query            |-> user_query,
      domain                |-> domain,
      retrieved_context     |-> <<>>,
      analysis              |-> None,
      validation_errors     |-> <<>>,
      retry_count           |-> 0,
      route                 |-> "",
      tool_calls            |-> tool_calls,
      final_response        |-> None,
      thread_id             |-> thread_id,
      clarification_options |-> None,
      user_selections       |-> user_selections ]

\* variant: every list-valued key accumulates
Merge_accumulate_lists(s, update) ==
    [ k \in DOMAIN s |->
        IF k \in DOMAIN update
        THEN IF k \in {"messages", "validation_errors", "tool_calls"}
             THEN s[k] \o update[k] ELSE update[k]
        ELSE s[k] ]

\* messages: Annotated[list, operator.add]; every other key is overwritten
Merge(s, update) ==
    [ k \in DOMAIN s |->
        IF k \in DOMAIN update
        THEN IF k = "messages" THEN s[k] \o update[k] ELSE update[k]
        ELSE s[k] ]

\* graph.py run_graph
run_graph(user_query, domain, thread_id) ==
    AgentState(user_query, domain, thread_id, None, <<>>)

\* graph.py stream_graph
stream_graph(user_query, domain, thread_id, user_selections) ==
    AgentState(user_query, domain, thread_id, user_selections, <<>>)

----
(* nodes.py: Guardrail *)

unethical_keywords ==
    {"evade", "bypass", "avoid detection", "hide", "loophole", "how can i hide"}

general_triggers ==
    {"hi", "hello", "who are you", "what can you do", "help", "thanks",
     "good morning", "capabilities"}

\* the ComplianceResponse dump built by node_guardrail; it has no "type" key
blocked_response ==
    [ risk_level          |-> "high",
      confidence_score    |-> 100,
      legal_basis         |-> "GDPR Art 5(1)(a) (Lawfulness & Transparency)",
      summary             |-> "This request involves evasion of mandatory compliance obligations.",
      scope_limitation    |-> "N/A - Illegal Request",
      needs_clarification |-> FALSE,
      reasoning_map       |-> <<>> ]

\* variant: the general-conversation check runs before the intent filter
node_guardrail_general_first(s) ==
    LET query == s.user_query
        q_lower == Lower(query)
        is_general == WordCount(query) < GeneralMaxWords /\ AnyIn(general_triggers, q_lower)
    IN  IF is_general
        THEN [route |-> "general"]
        ELSE IF AnyIn(unethical_keywords, q_lower)
        THEN [route |-> "blocked", final_response |-> Some(blocked_response)]
        ELSE [route |-> "analysis"]

node_guardrail(s) ==
    LET query == s.user_query
        q_lower == Lower(query)
        is_general == WordCount(query) < GeneralMaxWords /\ AnyIn(general_triggers, q_lower)
    IN  IF AnyIn(unethical_keywords, q_lower)
        THEN [route |-> "blocked", final_response |-> Some(blocked_response)]
        ELSE IF is_general
        THEN [route |-> "general"]
        ELSE [route |-> "analysis"]

route_after_guardrail(s) ==
    IF s.route = "blocked" THEN "end"
    ELSE IF s.route = "general" THEN "chat"
    ELSE "retrieve"

\* variant: the chat branch is wired to Generate
GuardrailEdges_chat_to_llm == [end |-> "END", chat |-> "llm", retrieve |-> "retrieve"]

GuardrailEdges == [end |-> "END", chat |-> "chat", retrieve |-> "retrieve"]

----
(* llm_client.py: the failover loop over the model list *)

ModelOutcomes == [1..NumModels -> {"ok", "schema_error", "error"}]

\* a loop in which a schema mismatch is treated like any other failure
RECURSIVE safe_api_call_from_no_abort(_, _)
safe_api_call_from_no_abort(outcomes, i) ==
    IF i > Len(outcomes)
    THEN [status |-> "raise", error |-> "[OUTAGE] SERVICE OUTAGE", tried |-> Len(outcomes)]
    ELSE IF outcomes[i] = "ok"
    THEN [status |-> "ok", error |-> "", tried |-> i]
    ELSE safe_api_call_from_no_abort(outcomes, i + 1)

\* outcomes[i] is what the provider does when models[i] is called
RECURSIVE safe_api_call_from(_, _)
safe_api_call_from(outcomes, i) ==
    IF i > Len(outcomes)
    THEN [status |-> "raise", error |-> "[OUTAGE] SERVICE OUTAGE", tried |-> Len(outcomes)]
    ELSE IF outcomes[i] = "ok"
    THEN [status |-> "ok", error |-> "", tried |-> i]
    ELSE IF outcomes[i] = "schema_error"
    THEN [status |-> "raise", error |-> "Schema Validation Error", tried |-> i]
    ELSE safe_api_call_from(outcomes, i + 1)

\* variant: the loop that does not abort on a schema mismatch
safe_api_call_no_abort(outcomes) == safe_api_call_from_no_abort(outcomes, 1)

safe_api_call(outcomes) == safe_api_call_from(outcomes, 1)

\* every result the failover loop can give
ApiResults == { safe_api_call(o) : o \in ModelOutcomes }

\* what a generative call adds to the call history
CallLog(name, api) == IF api.status = "raise" THEN <<name, "raised">> ELSE <<name>>

----
(* nodes.py: Chat *)

\* api is the result of safe_api_call; a raise is not caught by node_chat
node_chat(s, api) ==
    [final_response |-> Some([type |-> "chat", message |-> "chat_text"])]

----
(* nodes.py: Retrieve *)

\* router.py needs_multi_article_reasoning
needs_multi_article_reasoning(query) ==
    AnyIn({"fine", "penalty", "maximum", "sanction", "liable", "consequence", "breach"},
          Lower(query))

DOMAIN_MAP == {
    [triggers |-> {"fine", "penalty", "administrative", "sanction", "euro"},
     inject   |-> {"83"}],
    [triggers |-> {"apply", "applies", "scope", "territorial", "material", "when does"},
     inject   |-> {"2", "3"}],
    [triggers |-> {"define", "definition", "meaning", "what is a", "who is a"},
     inject   |-> {"4"}],
    [triggers |-> {"delete", "erasure", "erase", "forget", "access", "rectify", "copy"},
     inject   |-> {"6", "12", "15", "17"}],
    [triggers |-> {"dpo", "officer", "representative", "public authority"},
     inject   |-> {"37", "38", "39"}],
    [triggers |-> {"transfer", "third country", "abroad", "adequacy"},
     inject   |-> {"45", "46", "49"}] }

Digits == <<"0","1","2","3","4","5","6","7","8","9">>
DigitRank(c) == CHOOSE i \in 1..10 : Digits[i] = c

\* Python's < on the article-id strings (lexicographic)
RECURSIVE StrLessFrom(_, _, _)
StrLessFrom(a, b, i) ==
    IF i > Len(b) THEN FALSE
    ELSE IF i > Len(a) THEN TRUE
    ELSE LET ca == DigitRank(SubSeq(a, i, i))
             cb == DigitRank(SubSeq(b, i, i))
         IN  IF ca # cb THEN ca < cb
             ELSE StrLessFrom(a, b, i + 1)

StrLess(a, b) == StrLessFrom(a, b, 1)

\* sorted(list(ids))
RECURSIVE sorted(_)
sorted(ids) ==
    IF ids = {} THEN <<>>
    ELSE LET m == CHOOSE x \in ids : \A y \in ids \ {x} : StrLess(x, y)
         IN  <<m>> \o sorted(ids \ {m})

\* hits returned by indexer.hybrid_search (article ids of the results)
RetrievalHits == { <<>>, <<"33">>, <<"33", "34", "83">> }

retrieve_k(query) == IF needs_multi_article_reasoning(query) THEN 6 ELSE 3

\* results: the hits of hybrid_search (GDPR); search_text: the Tavily text (FDA)
node_retrieve(s, results, search_text) ==
    LET query == s.user_query
        q_lower == Lower(query)
        retrieved_ids == { results[i] : i \in 1..Len(results) }
        injected == UNION { r.inject : r \in { m \in DOMAIN_MAP : AnyIn(m.triggers, q_lower) } }
    IN  IF s.domain = "GDPR"
        THEN IF results = <<>>
             THEN [ retrieved_context |-> <<>>,
                    final_response |-> Some([type |-> "error",
                                             message |-> "Insufficient context found."]),
                    route |-> "blocked" ]
             ELSE [ retrieved_context |-> sorted(retrieved_ids \cup injected) ]
        ELSE IF s.domain = "FDA"
        THEN [ retrieved_context |-> <<search_text>> ]
        ELSE IF s.domain = "CCPA"
        THEN [ retrieved_context |-> <<"Source: CCPA/CPRA Legal Statutes">> ]
        ELSE [ retrieved_context |-> <<>> ]

----
(* nodes.py: Clarify *)

definition_keywords == {"what is", "define", "meaning of", "article", "section", "explain"}

\* options the clarify sub-call may rank (ClarificationOption: id, text, rank)
ModelOptions ==
    << [id |-> "opt_1", text |-> "Was the data encrypted?", rank |-> 1],
       [id |-> "opt_2", text |-> "How many records?", rank |-> 2],
       [id |-> "opt_3", text |-> "Was the authority notified?", rank |-> 3],
       [id |-> "opt_4", text |-> "Are you controller or processor?", rank |-> 4],
       [id |-> "opt_5", text |-> "Which member state?", rank |-> 4],
       [id |-> "opt_6", text |-> "Was special category data involved?", rank |-> 4] >>

\* ClarificationResponse values the sub-call may return
ClarificationResponses ==
    { [needs_clarification |-> n, summary |-> "why", options |-> SubSeq(ModelOptions, 1, k)] :
        n \in BOOLEAN, k \in {0, 1, KeepOptions, MaxOptions} }

opt_custom == [id |-> "opt_custom", text |-> "Other (describe your situation)", rank |-> 5]
opt_unknown == [id |-> "opt_unknown", text |-> "I don't know / Skip clarification", rank |-> 6]

\* True when node_clarify reaches the generative sub-call
clarify_calls_llm(s) ==
    /\ ~Truthy(s.user_selections)
    /\ ~AnyIn(definition_keywords, Lower(s.user_query))

\* variant: the selections are not merged into the context
clarify_with_selections_no_merge(s) ==
    [ retrieved_context |-> s.retrieved_context,
      route |-> "clear" ]

\* node_clarify, the branch taken when user_selections is truthy
clarify_with_selections(s) ==
    [ retrieved_context |->
          s.retrieved_context \o <<"[USER CLARIFICATION]">> \o Val(s.user_selections),
      route |-> "clear" ]

\* variant: a failed sub-call ends the turn with a clarification request
node_clarify_fail_closed(s, api, result) ==
    IF Truthy(s.user_selections)
    THEN clarify_with_selections(s)
    ELSE IF AnyIn(definition_keywords, Lower(s.user_query))
    THEN [route |-> "clear"]
    ELSE IF api.status = "raise"
    THEN [ route |-> "depends",
           clarification_options |-> Some(<<opt_custom, opt_unknown>>),
           final_response |-> Some([type |-> "clarification",
                                    summary |-> api.error,
                                    options |-> <<opt_custom, opt_unknown>>]) ]
    ELSE IF ~result.needs_clarification \/ result.options = <<>>
    THEN [route |-> "clear"]
    ELSE LET kept == SubSeq(result.options, 1,
                            IF Len(result.options) < KeepOptions
                            THEN Len(result.options) ELSE KeepOptions)
             options == kept \o <<opt_custom, opt_unknown>>
         IN  [ route |-> "depends",
               clarification_options |-> Some(options),
               final_response |-> Some([type |-> "clarification",
                                        summary |-> result.summary,
                                        options |-> options]) ]

\* variant: every option the sub-call returned is kept
node_clarify_keep_all(s, api, result) ==
    IF Truthy(s.user_selections)
    THEN clarify_with_selections(s)
    ELSE IF AnyIn(definition_keywords, Lower(s.user_query))
    THEN [route |-> "clear"]
    ELSE IF api.status = "raise"
    THEN [route |-> "clear"]
    ELSE IF ~result.needs_clarification \/ result.options = <<>>
    THEN [route |-> "clear"]
    ELSE LET options == result.options \o <<opt_custom, opt_unknown>>
         IN  [ route |-> "depends",
               clarification_options |-> Some(options),
               final_response |-> Some([type |-> "clarification",
                                        summary |-> result.summary,
                                        options |-> options]) ]

\* api: result of safe_api_call; result: the ClarificationResponse when api is ok
node_clarify(s, api, result) ==
    IF Truthy(s.user_selections)
    THEN clarify_with_selections(s)
    ELSE IF AnyIn(definition_keywords, Lower(s.user_query))
    THEN [route |-> "clear"]
    ELSE IF api.status = "raise"
    THEN [route |-> "clear"]
    ELSE IF ~result.needs_clarification \/ result.options = <<>>
    THEN [route |-> "clear"]
    ELSE LET kept == SubSeq(result.options, 1,
                            IF Len(result.options) < KeepOptions
                            THEN Len(result.options) ELSE KeepOptions)
             options == kept \o <<opt_custom, opt_unknown>>
         IN  [ route |-> "depends",
               clarification_options |-> Some(options),
               final_response |-> Some([type |-> "clarification",
                                        summary |-> result.summary,
                                        options |-> options]) ]

route_after_clarify(s) ==
    IF s.route = "depends" THEN "end" ELSE "llm"

ClarifyEdges == [end |-> "END", llm |-> "llm"]

----
(* nodes.py: Generate (node_llm) *)

\* ComplianceResponse values the structured call may return (model_dump form;
\* confidence_score in hundredths)
Analyses == {
    [ risk_level |-> "low", confidence_score |-> 100, needs_clarification |-> FALSE,
      legal_basis |-> "Article 4(1)", scope_limitation |-> "N/A",
      summary |-> "Definition of personal data.", reasoning_map |-> <<"4(1)">> ],
    [ risk_level |-> "medium", confidence_score |-> 50, needs_clarification |-> TRUE,
      legal_basis |-> "Article 33", scope_limitation |-> "N/A",
      summary |-> "Depends on encryption status.", reasoning_map |-> <<>> ],
    [ risk_level |-> "high", confidence_score |-> 74, needs_clarification |-> FALSE,
      legal_basis |-> "Article 33(1)", scope_limitation |-> "N/A",
      summary |-> "Breach must be notified.", reasoning_map |-> <<"33(1)">> ],
    [ risk_level |-> "critical", confidence_score |-> 90, needs_clarification |-> FALSE,
      legal_basis |-> "Article 83(2)(a)", scope_limitation |-> "N/A",
      summary |-> "Fines up to 4% of turnover.", reasoning_map |-> <<"83(2)(a)">> ] }

RiskLevels == {"low", "medium", "high", "critical"}

\* ComplianceResponse(**analysis_dict) succeeds
ParsesAsComplianceResponse(a) ==
    /\ a.risk_level \in RiskLevels
    /\ a.confidence_score \in 0..100

IsDefinitionQuery(query) ==
    AnyIn({"what is", "define", "meaning of", "considered personal info", "stand for",
           "are ip addresses"}, Lower(query))

\* PROMPTS.get(domain, PROMPTS["GDPR"])
PromptFor(domain) == IF domain \in {"GDPR", "FDA", "CCPA"} THEN domain ELSE "GDPR"

\* variant: the retry prompt is the same as the first prompt
llm_messages_no_correction(s) ==
    << [role |-> "system", prompt |-> PromptFor(s.domain),
        risk_guidance |-> IsDefinitionQuery(s.user_query)],
       [role |-> "user", context |-> s.retrieved_context,
        query |-> s.user_query] >>

\* the messages list node_llm builds
llm_messages(s) ==
    LET base == << [role |-> "system", prompt |-> PromptFor(s.domain),
                    risk_guidance |-> IsDefinitionQuery(s.user_query)],
                   [role |-> "user", context |-> s.retrieved_context,
                    query |-> s.user_query] >>
        correction == [role |-> "user", errors |-> s.validation_errors]
    IN  IF s.retry_count > 0 /\ s.validation_errors # <<>>
        THEN IF Truthy(s.analysis)
             THEN base \o << [role |-> "assistant", analysis |-> Val(s.analysis)],
                             correction >>
             ELSE base \o << correction >>
        ELSE base

\* values the structured call may hand back: a ComplianceResponse or a plain string
LlmResponses ==
    { [is_str |-> FALSE, model |-> a] : a \in Analyses }
        \cup { [is_str |-> TRUE, text |-> "raw text"] }

\* api: result of safe_api_call; response: what the call returned when api is ok
node_llm(s, api, response) ==
    IF api.status = "raise"
    THEN [ final_response |-> Some([type |-> "error", message |-> "API Error",
                                    detail |-> api.error]),
           route |-> "blocked" ]
    ELSE IF response.is_str
    THEN [ final_response |-> Some([type |-> "error", message |-> response.text,
                                    detail |-> ""]),
           route |-> "blocked" ]
    ELSE [ analysis |-> Some(response.model),
           validation_errors |-> <<>>,
           messages |-> llm_messages(s) ]

route_after_llm(s) ==
    IF s.route = "blocked" THEN "end"
    ELSE IF s.tool_calls # <<>> THEN "tool_executor"
    ELSE "validator"

LlmEdges == [end |-> "END", tool_executor |-> "tool_executor", validator |-> "validator"]

----
(* tools.py / nodes.py: Tool Dispatch *)

TOOL_REGISTRY == {"search_regulations"}

\* what running search_regulations does: "results", "no_match", or "raise"
ToolOutcomes == {"results", "no_match", "raise"}

\* stands for an exception that leaves execute_tool_call instead of a result
ToolRaised == "<exception>"

\* variant: an exception of the tool function is not caught
execute_tool_call_uncaught(tool_name, arguments, outcome) ==
    IF tool_name \notin TOOL_REGISTRY
    THEN "Error: Unknown tool"
    ELSE IF arguments = "bad_keyword" \/ outcome = "raise"
    THEN ToolRaised
    ELSE IF outcome = "no_match" THEN "No articles found matching"
    ELSE "Regulation Search Results"

execute_tool_call(tool_name, arguments, outcome) ==
    IF tool_name \notin TOOL_REGISTRY
    THEN "Error: Unknown tool"
    ELSE IF arguments = "bad_keyword" \/ outcome = "raise"
    THEN "Error executing tool"
    ELSE IF outcome = "no_match" THEN "No articles found matching"
    ELSE "Regulation Search Results"

\* variant: the results are appended last request first
node_tool_executor_reversed(s, outcomes) ==
    LET n == Len(s.tool_calls)
    IN  [ messages |-> [ i \in 1..n |->
                           [ role |-> "tool",
                             content |-> execute_tool_call(s.tool_calls[n + 1 - i].name,
                                                           s.tool_calls[n + 1 - i].arguments,
                                                           outcomes[n + 1 - i]),
                             name |-> s.tool_calls[n + 1 - i].name ] ],
          tool_calls |-> <<>> ]

\* outcomes[i]: what the tool of the i-th request does when it runs
node_tool_executor(s, outcomes) ==
    [ messages |-> [ i \in 1..Len(s.tool_calls) |->
                       [ role |-> "tool",
                         content |-> execute_tool_call(s.tool_calls[i].name,
                                                       s.tool_calls[i].arguments,
                                                       outcomes[i]),
                         name |-> s.tool_calls[i].name ] ],
      tool_calls |-> <<>> ]

----
(* nodes.py: Validate *)

RuleViolations == <<"Reasoning Map: EMPTY", "Risk Signal: cannot be LOW",
                    "Depth Check: multi-factor test", "Subsection Grounding">>

\* error lists _validate_response may return: none, or the first MaxErrors rules
ErrorLists == { <<>>, SubSeq(RuleViolations, 1, MaxErrors) }

\* variant: retry_count is advanced by every pass, failing or not
node_validator_counts_every_pass(s, errors) ==
    IF ~Truthy(s.analysis)
    THEN [ validation_errors |-> <<"No analysis to validate.">> ]
    ELSE IF ~ParsesAsComplianceResponse(Val(s.analysis))
    THEN [ validation_errors |-> <<"Failed to parse analysis">>,
           retry_count |-> s.retry_count + 1 ]
    ELSE IF errors # <<>>
    THEN [ validation_errors |-> errors,
           retry_count |-> s.retry_count + 1 ]
    ELSE [ validation_errors |-> <<>>,
           retry_count |-> s.retry_count + 1 ]

\* errors: the list _validate_response(response, query) returns
node_validator(s, errors) ==
    IF ~Truthy(s.analysis)
    THEN [ validation_errors |-> <<"No analysis to validate.">> ]
    ELSE IF ~ParsesAsComplianceResponse(Val(s.analysis))
    THEN [ validation_errors |-> <<"Failed to parse analysis">>,
           retry_count |-> s.retry_count + 1 ]
    ELSE IF errors # <<>>
    THEN [ validation_errors |-> errors,
           retry_count |-> s.retry_count + 1 ]
    ELSE [ validation_errors |-> <<>> ]

\* variant: the retry bound is tested with <= instead of <
route_after_validation_off_by_one(s) ==
    IF s.validation_errors = <<>> THEN "semantic_override"
    ELSE IF s.retry_count <= MaxRetries THEN "llm"
    ELSE "fallback"

\* variant: the retry bound is tested before the error list
route_after_validation_bound_first(s) ==
    IF s.retry_count >= MaxRetries THEN "fallback"
    ELSE IF s.validation_errors = <<>> THEN "semantic_override"
    ELSE "llm"

\* variant: one more retry is allowed
route_after_validation_extra_retry(s) ==
    IF s.validation_errors = <<>> THEN "semantic_override"
    ELSE IF s.retry_count < MaxRetries + 1 THEN "llm"
    ELSE "fallback"

route_after_validation(s) ==
    IF s.validation_errors = <<>> THEN "semantic_override"
    ELSE IF s.retry_count < MaxRetries THEN "llm"
    ELSE "fallback"

\* variant: the passing branch leads to a node name the graph has no node for
ValidatorEdges_override_unregistered ==
    [semantic_override |-> "override", llm |-> "llm", fallback |-> "fallback"]

ValidatorEdges == [semantic_override |-> "semantic_override", llm |-> "llm",
                   fallback |-> "fallback"]

----
(* nodes.py: Semantic Override *)

SEMANTIC_MAP ==
    << [key |-> "personal information", citation |-> "1798.140(v)(1)", risk |-> "low", conf |-> 100],
       [key |-> "sensitive", citation |-> "1798.140(ae)", risk |-> "medium", conf |-> 95],
       [key |-> "sale", citation |-> "1798.140(ad)", risk |-> "medium", conf |-> 95],
       [key |-> "share", citation |-> "1798.140(ah)", risk |-> "medium", conf |-> 95],
       [key |-> "fraud", citation |-> "1798.105(d)(1)", risk |-> "medium", conf |-> 90],
       [key |-> "delete", citation |-> "1798.105", risk |-> "medium", conf |-> 90],
       [key |-> "geolocation", citation |-> "1798.140(ae)", risk |-> "medium", conf |-> 95] >>

gdpr_override(r, q_lower) ==
    IF Contains("tax", q_lower)
       /\ (Contains("erase", q_lower) \/ Contains("delet", q_lower) \/ Contains("refuse", q_lower))
    THEN [ r EXCEPT !.risk_level = "medium",
                    !.confidence_score = 100,
                    !.legal_basis = "GDPR Article 17(3)(b) (Exception) & Article 6(1)(c) (Lawful Basis)",
                    !.scope_limitation = "Only personal data strictly necessary for the legal obligation may be retained.",
                    !.summary = "Partial Refusal." ]
    ELSE r

\* variant: the citation is appended to the legal basis already there
ccpa_override_appending(r, q_lower) ==
    LET hits == { i \in 1..Len(SEMANTIC_MAP) : Contains(SEMANTIC_MAP[i].key, q_lower) }
    IN  IF hits = {} THEN r
        ELSE LET first == SEMANTIC_MAP[CHOOSE i \in hits : \A j \in hits : i <= j]
             IN  [ r EXCEPT !.legal_basis = @ \o "; California Civil Code " \o first.citation,
                            !.risk_level = first.risk,
                            !.confidence_score = first.conf ]

ccpa_override(r, q_lower) ==
    LET hits == { i \in 1..Len(SEMANTIC_MAP) : Contains(SEMANTIC_MAP[i].key, q_lower) }
    IN  IF hits = {} THEN r
        ELSE LET first == SEMANTIC_MAP[CHOOSE i \in hits : \A j \in hits : i <= j]
             IN  [ r EXCEPT !.legal_basis = "California Civil Code " \o first.citation,
                            !.risk_level = first.risk,
                            !.confidence_score = first.conf ]

definition_override(r, query) ==
    IF IsDefinitionQuery(query) /\ r.risk_level # "high"
    THEN [ r EXCEPT !.confidence_score = 100, !.risk_level = "low" ]
    ELSE r

\* schemas.py ComplianceResponse(**analysis_dict): the risk_level validator
\* lower-cases the value before the enum lookup (a value that is one of the
\* enum values already is its own lower case)
ComplianceResponse(a) ==
    [ a EXCEPT !.risk_level = IF @ \in RiskLevels THEN @ ELSE LowerOf(@) ]

node_semantic_override(s) ==
    IF ~Truthy(s.analysis)
    THEN << >>
    ELSE LET response == ComplianceResponse(Val(s.analysis))
             q_lower == Lower(s.user_query)
             r1 == IF s.domain = "GDPR" THEN gdpr_override(response, q_lower)
                   ELSE IF s.domain = "CCPA" THEN ccpa_override(response, q_lower)
                   ELSE response
         IN  [ analysis |-> Some(definition_override(r1, s.user_query)) ]

----
(* governance/engine.py and nodes.py: Governance *)

ConfidenceThreshold == 75   \* classify_decision: confidence < 0.75

\* variant: the critical-risk gate is tested before the refusal flag
classify_decision_risk_first(confidence, risk_level, requires_refusal) ==
    IF risk_level = "critical"
    THEN [ status |-> "review_required",
           reason |-> "Critical risk topic (e.g., Penalties) mandates human oversight.",
           confidence |-> confidence, risk_level |-> risk_level ]
    ELSE IF requires_refusal
    THEN [ status |-> "blocked",
           reason |-> "Response flagged as policy violation or refusal required.",
           confidence |-> confidence, risk_level |-> risk_level ]
    ELSE IF confidence < ConfidenceThreshold
    THEN [ status |-> "review_required",
           reason |-> "Low model confidence.",
           confidence |-> confidence, risk_level |-> risk_level ]
    ELSE [ status |-> "auto_approved",
           reason |-> "Confidence and risk levels within safe autonomous limits.",
           confidence |-> confidence, risk_level |-> risk_level ]

classify_decision(confidence, risk_level, requires_refusal) ==
    IF requires_refusal
    THEN [ status |-> "blocked",
           reason |-> "Response flagged as policy violation or refusal required.",
           confidence |-> confidence, risk_level |-> risk_level ]
    ELSE IF risk_level = "critical"
    THEN [ status |-> "review_required",
           reason |-> "Critical risk topic (e.g., Penalties) mandates human oversight.",
           confidence |-> confidence, risk_level |-> risk_level ]
    ELSE IF confidence < ConfidenceThreshold
    THEN [ status |-> "review_required",
           reason |-> "Low model confidence.",
           confidence |-> confidence, risk_level |-> risk_level ]
    ELSE [ status |-> "auto_approved",
           reason |-> "Confidence and risk levels within safe autonomous limits.",
           confidence |-> confidence, risk_level |-> risk_level ]

\* variant: the decision policy is consulted for every analysis
node_governance_no_bypass(s) ==
    IF ~Truthy(s.analysis)
    THEN [ final_response |-> Some([type |-> "error",
                                    message |-> "No analysis for governance."]) ]
    ELSE LET response == ComplianceResponse(Val(s.analysis))
             decision == classify_decision(response.confidence_score,
                                           response.risk_level, FALSE)
         IN  IF FALSE
             THEN [ final_response |-> Some(response) ]
             ELSE IF decision.status = "blocked"
             THEN [ final_response |-> Some([type |-> "blocked",
                                             reason |-> decision.reason]) ]
             ELSE IF decision.status = "review_required"
             THEN [ final_response |->
                      Some([ type |-> "review_required",
                             reason |-> decision.reason,
                             risk_level |-> response.risk_level,
                             confidence |-> decision.confidence,
                             confidence_score |-> response.confidence_score,
                             needs_clarification |-> response.needs_clarification,
                             legal_basis |-> response.legal_basis,
                             scope_limitation |-> response.scope_limitation,
                             summary |-> response.summary,
                             reasoning_map |-> response.reasoning_map ]) ]
             ELSE [ final_response |-> Some(response) ]

node_governance(s) ==
    IF ~Truthy(s.analysis)
    THEN [ final_response |-> Some([type |-> "error",
                                    message |-> "No analysis for governance."]) ]
    ELSE LET response == ComplianceResponse(Val(s.analysis))
             decision == classify_decision(response.confidence_score,
                                           response.risk_level, FALSE)
         IN  IF response.needs_clarification
             THEN [ final_response |-> Some(response) ]
             ELSE IF decision.status = "blocked"
             THEN [ final_response |-> Some([type |-> "blocked",
                                             reason |-> decision.reason]) ]
             ELSE IF decision.status = "review_required"
             THEN [ final_response |->
                      Some([ type |-> "review_required",
                             reason |-> decision.reason,
                             risk_level |-> response.risk_level,
                             confidence |-> decision.confidence,
                             confidence_score |-> response.confidence_score,
                             needs_clarification |-> response.needs_clarification,
                             legal_basis |-> response.legal_basis,
                             scope_limitation |-> response.scope_limitation,
                             summary |-> response.summary,
                             reasoning_map |-> response.reasoning_map ]) ]
             ELSE [ final_response |-> Some(response) ]

----
(* nodes.py: Fallback *)

\* variant: the failure is recorded in the state but no final_response is produced
node_fallback_no_response(s) ==
    [ validation_errors |-> s.validation_errors ]

node_fallback(s) ==
    [ final_response |-> Some([ type |-> "error",
                                message |-> "Analysis failed after retries",
                                retry_count |-> s.retry_count,
                                errors |-> s.validation_errors ]) ]

----
(* graph.py: stream_graph, the chunks yielded while the graph runs and after it *)

NODE_LABELS ==
    [ guardrail         |-> "Running intent safety check...",
      chat              |-> "Generating conversational response...",
      retrieve          |-> "Searching internal regulations...",
      clarify           |-> "Checking if clarification is needed...",
      llm               |-> "Generating compliance analysis...",
      validator         |-> "Validating LLM citations...",
      semantic_override |-> "Applying regulatory overrides...",
      governance        |-> "Running governance decision gate...",
      tool_executor     |-> "Executing regulation lookup tool...",
      fallback          |-> "Analysis failed, returning fallback..." ]

\* the chunk yielded for one astream output; s is the state after the node's
\* update (last_state holds the same retry_count: it starts at 0 and changes
\* only through updates)
NodeEvent(node, s) ==
    [event |-> "node", node |-> node, label |-> NODE_LABELS[node],
     retry_count |-> s.retry_count]

\* variant: a stage that runs again in the same turn is reported only once
Yield_first_visit_only(node, s) ==
    IF entry = "stream_graph"
       /\ ~\E i \in 1..Len(events) : events[i].node = node
    THEN Append(events, NodeEvent(node, s))
    ELSE events

\* only stream_graph yields; run_graph and invoke return the final state
Yield(node, s) ==
    IF entry = "stream_graph" THEN Append(events, NodeEvent(node, s)) ELSE events

\* the chunk yielded when astream is exhausted
ResultEvent(s) ==
    IF ~IsNone(s.final_response)
    THEN [event |-> "result", data |-> Val(s.final_response)]
    ELSE [event |-> "result",
          data |-> [type |-> "error", message |-> "No response generated."]]

\* variant: the except clause reports the failure as a result chunk
ErrorEvent_as_result ==
    [event |-> "result", data |-> [type |-> "error", message |-> "exception"]]

\* the chunk yielded by the except clause
ErrorEvent == [event |-> "error", data |-> [type |-> "error", message |-> "exception"]]

\* the last chunk
DoneChunk == [sentinel |-> "[DONE]"]

IsTerminalEvent(c) == "event" \in DOMAIN c /\ c.event \in {"result", "error"}
Yielded(c) == \E i \in 1..Len(events) : events[i] = c
TerminalYielded == \E i \in 1..Len(events) : IsTerminalEvent(events[i])

----
(* The lazily built LLM clients: _llm_cache and _get_clients (nodes.py) *)

\* the keys _get_clients stores, in the order of its assignments
ClientKeys == <<"base", "instructor", "models", "provider">>

\* the keys _get_clients returns
ReturnedKeys == {"base", "instructor", "models"}

\* _llm_cache after a call of _get_clients that no other call overlaps
get_clients(cache) ==
    IF cache = {} THEN { ClientKeys[i] : i \in 1..Len(ClientKeys) } ELSE cache

----
Init ==
    /\ entry \in Entries
    /\ \E t \in Turns :
          \/ entry = "run_graph" /\ state = run_graph(t[1], t[2], "default")
          \/ /\ entry = "stream_graph"
             /\ \E sel \in {None} \cup { Some(l) : l \in SelectionLists } :
                    state = stream_graph(t[1], t[2], "default", sel)
          \/ \* compiled_graph.invoke on a caller-built state with pending tool_calls
             /\ entry = "invoke"
             /\ \E tc \in ToolCallLists :
                    state = AgentState(t[1], t[2], "default", None, tc)
    /\ pc = "guardrail"
    /\ trace = <<>>
    /\ calls = <<>>
    /\ events = <<>>
    /\ llm_cache = {}

Guardrail ==
    /\ pc = "guardrail"
    /\ state' = Merge(state, node_guardrail(state))
    /\ pc' = GuardrailEdges[route_after_guardrail(state')]
    /\ trace' = Append(trace, "guardrail")
    /\ events' = Yield("guardrail", state')
    /\ UNCHANGED <<entry, calls, llm_cache>>

Chat ==
    /\ pc = "chat"
    /\ \E api \in ApiResults :
          /\ IF api.status = "raise"
             THEN /\ pc' = "RAISED"
                  /\ UNCHANGED state
             ELSE /\ state' = Merge(state, node_chat(state, api))
                  /\ pc' = "END"
          /\ calls' = calls \o CallLog("chat_llm", api)
    /\ trace' = Append(trace, "chat")
    /\ events' = IF pc' = "RAISED" THEN events ELSE Yield("chat", state')
    /\ llm_cache' = get_clients(llm_cache)
    /\ UNCHANGED entry

Retrieve ==
    /\ pc = "retrieve"
    /\ \/ \* GDPR: opening the data file, building the index or the search raises
          /\ state.domain = "GDPR"
          /\ pc' = "RAISED"
          /\ calls' = Append(calls, "retrieval")
          /\ UNCHANGED state
       \/ /\ state.domain = "GDPR"
          /\ \E results \in RetrievalHits :
                state' = Merge(state, node_retrieve(state, results, ""))
          /\ pc' = "clarify"
          /\ calls' = Append(calls, "retrieval")
       \/ /\ state.domain = "FDA"
          /\ \E text \in {"lawsuits", "Search Error"} :
                state' = Merge(state, node_retrieve(state, <<>>, text))
          /\ pc' = "clarify"
          /\ calls' = Append(calls, "retrieval")
       \/ /\ state.domain \notin {"GDPR", "FDA"}
          /\ state' = Merge(state, node_retrieve(state, <<>>, ""))
          /\ pc' = "clarify"
          /\ UNCHANGED calls
    /\ trace' = Append(trace, "retrieve")
    /\ events' = IF pc' = "RAISED" THEN events ELSE Yield("retrieve", state')
    /\ UNCHANGED <<entry, llm_cache>>

Clarify ==
    /\ pc = "clarify"
    /\ IF clarify_calls_llm(state)
       THEN \E api \in ApiResults, result \in ClarificationResponses :
                /\ state' = Merge(state, node_clarify(state, api, result))
                /\ calls' = calls \o CallLog("clarify_llm", api)
                /\ llm_cache' = get_clients(llm_cache)
       ELSE /\ state' = Merge(state, node_clarify(state, <<>>, <<>>))
            /\ UNCHANGED <<calls, llm_cache>>
    /\ pc' = ClarifyEdges[route_after_clarify(state')]
    /\ trace' = Append(trace, "clarify")
    /\ events' = Yield("clarify", state')
    /\ UNCHANGED entry

Llm ==
    /\ pc = "llm"
    /\ \E api \in ApiResults, response \in LlmResponses :
          /\ state' = Merge(state, node_llm(state, api, response))
          /\ calls' = calls \o CallLog("generate_llm", api)
    /\ pc' = LlmEdges[route_after_llm(state')]
    /\ trace' = Append(trace, "llm")
    /\ events' = Yield("llm", state')
    /\ llm_cache' = get_clients(llm_cache)
    /\ UNCHANGED entry

ToolExecutor ==
    /\ pc = "tool_executor"
    /\ \E outcomes \in [1..Len(state.tool_calls) -> ToolOutcomes] :
          LET update == node_tool_executor(state, outcomes)
          IN  IF \E i \in 1..Len(update.messages) : update.messages[i].content = ToolRaised
              THEN \* an exception out of the dispatcher leaves the node
                   /\ pc' = "RAISED"
                   /\ UNCHANGED <<state, events>>
              ELSE /\ state' = Merge(state, update)
                   /\ pc' = "llm"
                   /\ events' = Yield("tool_executor", state')
    /\ trace' = Append(trace, "tool_executor")
    /\ calls' = calls \o [i \in 1..Len(state.tool_calls) |-> "tool"]
    /\ UNCHANGED <<entry, llm_cache>>

Validator ==
    /\ pc = "validator"
    /\ \E errors \in ErrorLists :
          state' = Merge(state, node_validator(state, errors))
    /\ pc' = ValidatorEdges[route_after_validation(state')]
    /\ trace' = Append(trace, "validator")
    /\ events' = Yield("validator", state')
    /\ UNCHANGED <<entry, calls, llm_cache>>

SemanticOverride ==
    /\ pc = "semantic_override"
    /\ state' = Merge(state, node_semantic_override(state))
    /\ pc' = "governance"
    /\ trace' = Append(trace, "semantic_override")
    /\ events' = Yield("semantic_override", state')
    /\ UNCHANGED <<entry, calls, llm_cache>>

Governance ==
    /\ pc = "governance"
    /\ state' = Merge(state, node_governance(state))
    /\ pc' = "END"
    /\ trace' = Append(trace, "governance")
    /\ events' = Yield("governance", state')
    /\ UNCHANGED <<entry, calls, llm_cache>>

Fallback ==
    /\ pc = "fallback"
    /\ state' = Merge(state, node_fallback(state))
    /\ pc' = "END"
    /\ trace' = Append(trace, "fallback")
    /\ events' = Yield("fallback", state')
    /\ UNCHANGED <<entry, calls, llm_cache>>

\* astream is exhausted: the result chunk
StreamResult ==
    /\ entry = "stream_graph"
    /\ pc = "END"
    /\ ~TerminalYielded
    /\ events' = Append(events, ResultEvent(state))
    /\ UNCHANGED <<entry, state, pc, trace, calls, llm_cache>>

\* a node raised: the except clause yields the error chunk
StreamError ==
    /\ entry = "stream_graph"
    /\ pc = "RAISED"
    /\ ~TerminalYielded
    /\ events' = Append(events, ErrorEvent)
    /\ UNCHANGED <<entry, state, pc, trace, calls, llm_cache>>

\* after the try statement
StreamDone ==
    /\ entry = "stream_graph"
    /\ TerminalYielded
    /\ ~Yielded(DoneChunk)
    /\ events' = Append(events, DoneChunk)
    /\ UNCHANGED <<entry, state, pc, trace, calls, llm_cache>>

Next ==
    \/ Guardrail
    \/ Chat
    \/ Retrieve
    \/ Clarify
    \/ Llm
    \/ ToolExecutor
    \/ Validator
    \/ SemanticOverride
    \/ Governance
    \/ Fallback
    \/ StreamResult
    \/ StreamError
    \/ StreamDone

Spec == Init /\ [][Next]_vars

\* every node runs to completion once the executor has selected it
FairSpec == Spec /\ WF_vars(Next)

----
(* Several turns on one thread: the checkpointer hands the stored state of the  *)
(* thread to the next invocation, whose input is merged into it like an update *)

MaxHistory == 2         \* a further turn starts while the thread holds at most
                        \* this many messages

ThreadTurns == { <<"hello, what can you do?", "GDPR">>,
                 <<"what is personal data", "GDPR">>,
                 <<"what is personal data", "FDA">>,
                 <<"what is personal data", "CCPA">> }

InitThread ==
    /\ Init
    /\ <<state.user_query, state.domain>> \in ThreadTurns

\* run_graph / stream_graph called again with the thread_id of a finished turn
NewTurn ==
    /\ pc \in {"END", "RAISED"}
    /\ entry = "stream_graph" => Yielded(DoneChunk)
    /\ Len(state.messages) <= MaxHistory
    /\ \E t \in ThreadTurns, e \in {"run_graph", "stream_graph"} :
          /\ entry' = e
          /\ \/ /\ e = "run_graph"
                /\ state' = Merge(state, run_graph(t[1], t[2], state.thread_id))
             \/ /\ e = "stream_graph"
                /\ \E sel \in {None} \cup { Some(l) : l \in SelectionLists } :
                      state' = Merge(state, stream_graph(t[1], t[2], state.thread_id, sel))
    /\ pc' = "guardrail"
    /\ trace' = <<>>
    /\ calls' = <<>>
    /\ events' = <<>>
    /\ UNCHANGED llm_cache

NextThread ==
    \/ Next
    \/ NewTurn

SpecThread == InitThread /\ [][NextThread]_vars

----
(* node_llm with the failover loop of safe_api_call spelled out: `calls` lists   *)
(* the models that were called, in order, with what the provider did           *)

\* states Generate is entered with: first attempt or a retry, with and without
\* pending tool_calls
GenerateStates ==
    { [ AgentState(q, "GDPR", "default", None, tc)
          EXCEPT !.route = "clear",
                 !.retrieved_context = <<"33">>,
                 !.retry_count = n,
                 !.validation_errors =
                     IF n = 0 THEN <<>> ELSE SubSeq(RuleViolations, 1, MaxErrors) ] :
        q \in {"we lost patient data", "what is personal data"},
        tc \in ToolCallLists \cup {<<>>},
        n \in 0..(MaxRetries - 1) }

InitFailover ==
    /\ entry = "safe_api_call"
    /\ state \in GenerateStates
    /\ pc = "llm"
    /\ trace = <<>>
    /\ calls = <<>>
    /\ events = <<>>
    /\ llm_cache = {}

LlmFailover ==
    /\ pc = "llm"
    /\ \E outcomes \in ModelOutcomes, response \in LlmResponses :
          LET api == safe_api_call(outcomes)
          IN  /\ state' = Merge(state, node_llm(state, api, response))
              /\ calls' = [ i \in 1..api.tried |-> [model |-> i, outcome |-> outcomes[i]] ]
    /\ pc' = LlmEdges[route_after_llm(state')]
    /\ trace' = Append(trace, "llm")
    /\ llm_cache' = get_clients(llm_cache)
    /\ UNCHANGED <<entry, events>>

NextFailover == LlmFailover

SpecFailover == InitFailover /\ [][NextFailover]_vars

----
(* The router functions applied to caller-built states, as the routing unit    *)
(* tests do (tests/test_graph.py, TEST 8)                                      *)

MaxRetryInput == 4      \* largest retry_count handed to a router

RouterNames == {"route_after_guardrail", "route_after_clarify", "route_after_llm",
                "route_after_validation"}

RouterStates ==
    { [ AgentState("we lost patient data", "GDPR", "default", None, tc)
          EXCEPT !.route = r, !.validation_errors = e, !.retry_count = n ] :
        tc \in ToolCallLists \cup {<<>>},
        r \in {"", "blocked", "general", "analysis", "clear", "depends"},
        e \in ErrorLists,
        n \in 0..MaxRetryInput }

InitRouters ==
    /\ entry = "router"
    /\ state \in RouterStates
    /\ pc \in RouterNames
    /\ trace = <<>>
    /\ calls = <<>>
    /\ events = <<>>
    /\ llm_cache = {}

RouteAfterGuardrail ==
    /\ pc = "route_after_guardrail"
    /\ pc' = GuardrailEdges[route_after_guardrail(state)]
    /\ trace' = <<pc>>
    /\ UNCHANGED <<entry, state, calls, events, llm_cache>>

RouteAfterClarify ==
    /\ pc = "route_after_clarify"
    /\ pc' = ClarifyEdges[route_after_clarify(state)]
    /\ trace' = <<pc>>
    /\ UNCHANGED <<entry, state, calls, events, llm_cache>>

RouteAfterLlm ==
    /\ pc = "route_after_llm"
    /\ pc' = LlmEdges[route_after_llm(state)]
    /\ trace' = <<pc>>
    /\ UNCHANGED <<entry, state, calls, events, llm_cache>>

RouteAfterValidation ==
    /\ pc = "route_after_validation"
    /\ pc' = ValidatorEdges[route_after_validation(state)]
    /\ trace' = <<pc>>
    /\ UNCHANGED <<entry, state, calls, events, llm_cache>>

NextRouters ==
    \/ RouteAfterGuardrail
    \/ RouteAfterClarify
    \/ RouteAfterLlm
    \/ RouteAfterValidation

SpecRouters == InitRouters /\ [][NextRouters]_vars

----
(* node_semantic_override applied repeatedly to caller-built states *)

MaxApplications == 2    \* how often the override is applied to one state

OverrideQueries ==
    Queries \cup { "What is personal information under the law",
                   "can we refuse to delete data after a sale",
                   "define the tax records we may refuse to erase" }

\* candidate analyses: the ones Generate produces, and the same with the
\* risk tier spelled in upper case
OverrideCandidates ==
    Analyses \cup { [ a EXCEPT !.risk_level = u ] :
                        a \in Analyses, u \in {"HIGH", "Medium"} }

OverrideStates ==
    { [ AgentState(q, d, "default", None, <<>>) EXCEPT !.analysis = a ] :
        q \in OverrideQueries, d \in Domains,
        a \in {None} \cup { Some(c) : c \in OverrideCandidates } }

InitOverride ==
    /\ entry = "semantic_override"
    /\ state \in OverrideStates
    /\ pc = "semantic_override"
    /\ trace = <<>>
    /\ calls = <<>>
    /\ events = <<>>
    /\ llm_cache = {}

ApplyOverride ==
    /\ pc = "semantic_override"
    /\ Len(trace) < MaxApplications
    /\ state' = Merge(state, node_semantic_override(state))
    /\ trace' = Append(trace, "semantic_override")
    /\ UNCHANGED <<entry, pc, calls, events, llm_cache>>

NextOverride == ApplyOverride

SpecOverride == InitOverride /\ [][NextOverride]_vars

----
(* Two turns served by one process at the same time, each on its own thread_id. *)
(* Here state, pc and trace hold one value per thread_id; state[t] is what the  *)
(* checkpointer stores under t. stream_graph runs the node functions on worker  *)
(* threads, so the statements of _get_clients interleave: its test of the cache,*)
(* each of its four stores and its return are steps of their own. calls lists  *)
(* the calls of get_llm_client and the KeyErrors raised by the return.         *)

Threads == {"thread_a", "thread_b"}

ConcurrentQueries == {"hello, what can you do?", "what is personal data",
                      "we lost patient data"}

\* what the outside world answers, the same for every turn and every schedule:
\* the provider is healthy, the validator finds nothing to correct
ScriptedApi == [status |-> "ok", error |-> "", tried |-> 1]
ScriptedHits == <<"33">>
ScriptedClarification ==
    [needs_clarification |-> FALSE, summary |-> "why", options |-> <<>>]
ScriptedResponse ==
    [is_str |-> FALSE,
     model |-> [ risk_level |-> "low", confidence_score |-> 100,
                 needs_clarification |-> FALSE,
                 legal_basis |-> "Article 4(1)", scope_limitation |-> "N/A",
                 summary |-> "Definition of personal data.",
                 reasoning_map |-> <<"4(1)">> ]]

\* the return statement of _get_clients subscripts a key that is not stored
KeyErrorApi == [status |-> "raise", error |-> "KeyError", tried |-> 0]

\* the nodes that call _get_clients
NeedsClients(node, s) ==
    \/ node \in {"chat", "llm"}
    \/ node = "clarify" /\ clarify_calls_llm(s)

\* the partial update of a node under the scripted answers; api is what the
\* node's try block ends with
NodeUpdate(node, s, api) ==
    CASE node = "guardrail" -> node_guardrail(s)
      [] node = "chat" -> node_chat(s, api)
      [] node = "retrieve" -> node_retrieve(s, ScriptedHits, "")
      [] node = "clarify" -> node_clarify(s, api, ScriptedClarification)
      [] node = "llm" -> node_llm(s, api, ScriptedResponse)
      [] node = "tool_executor" ->
            node_tool_executor(s, [i \in 1..Len(s.tool_calls) |-> "results"])
      [] node = "validator" -> node_validator(s, <<>>)
      [] node = "semantic_override" -> node_semantic_override(s)
      [] node = "governance" -> node_governance(s)
      [] node = "fallback" -> node_fallback(s)

\* the edge leaving a node (graph.py build_graph), s being the merged state
NextNode(node, s) ==
    CASE node = "guardrail" -> GuardrailEdges[route_after_guardrail(s)]
      [] node = "chat" -> "END"
      [] node = "retrieve" -> "clarify"
      [] node = "clarify" -> ClarifyEdges[route_after_clarify(s)]
      [] node = "llm" -> LlmEdges[route_after_llm(s)]
      [] node = "tool_executor" -> "llm"
      [] node = "validator" -> ValidatorEdges[route_after_validation(s)]
      [] node = "semantic_override" -> "governance"
      [] node = "governance" -> "END"
      [] node = "fallback" -> "END"

\* the state a turn ends with when no other turn runs beside it
RECURSIVE RunAloneFrom(_, _)
RunAloneFrom(node, s) ==
    IF node = "END"
    THEN s
    ELSE LET merged == Merge(s, NodeUpdate(node, s, ScriptedApi))
         IN  RunAloneFrom(NextNode(node, merged), merged)

RunAlone(user_query, domain, thread_id) ==
    RunAloneFrom("guardrail", stream_graph(user_query, domain, thread_id, None))

At(node, at, written) == [node |-> node, at |-> at, written |-> written]

InitConcurrent ==
    /\ entry = [t \in Threads |-> "stream_graph"]
    /\ \E q \in [Threads -> ConcurrentQueries] :
          state = [t \in Threads |-> stream_graph(q[t], "GDPR", t, None)]
    /\ pc = [t \in Threads |-> At("guardrail", "enter", 0)]
    /\ trace = [t \in Threads |-> <<>>]
    /\ calls = <<>>
    /\ events = <<>>
    /\ llm_cache \in {{}, get_clients({})}

\* the node of thread t completes: its update is merged into the state of t
\* only, and the edge is taken; an exception leaving the node ends the turn
CompleteNode(t, api) ==
    LET node == pc[t].node
    IN  /\ IF node = "chat" /\ api.status = "raise"
           THEN /\ pc' = [pc EXCEPT ![t] = At("RAISED", "enter", 0)]
                /\ UNCHANGED state
           ELSE LET merged == Merge(state[t], NodeUpdate(node, state[t], api))
                IN  /\ state' = [state EXCEPT ![t] = merged]
                    /\ pc' = [pc EXCEPT ![t] = At(NextNode(node, merged), "enter", 0)]
        /\ trace' = [trace EXCEPT ![t] = Append(@, node)]

\* a node that needs no client
RunNode(t) ==
    /\ pc[t].node \notin {"END", "RAISED"}
    /\ pc[t].at = "enter"
    /\ ~NeedsClients(pc[t].node, state[t])
    /\ CompleteNode(t, ScriptedApi)
    /\ UNCHANGED <<entry, calls, events, llm_cache>>

\* _get_clients: `if not _llm_cache:`
TestCache(t) ==
    /\ pc[t].node \notin {"END", "RAISED"}
    /\ pc[t].at = "enter"
    /\ NeedsClients(pc[t].node, state[t])
    /\ pc' = [pc EXCEPT ![t] = At(pc[t].node,
                                  IF llm_cache = {} THEN "store" ELSE "return", 0)]
    /\ calls' = IF llm_cache = {} THEN Append(calls, "get_llm_client") ELSE calls
    /\ UNCHANGED <<entry, state, trace, events, llm_cache>>

\* _get_clients: the next of the four assignments `_llm_cache[key] = ...`
StoreClient(t) ==
    /\ pc[t].at = "store"
    /\ llm_cache' = llm_cache \cup {ClientKeys[pc[t].written + 1]}
    /\ pc' = [pc EXCEPT ![t] =
                 IF pc[t].written + 1 = Len(ClientKeys)
                 THEN At(pc[t].node, "return", 0)
                 ELSE At(pc[t].node, "store", pc[t].written + 1)]
    /\ UNCHANGED <<entry, state, trace, calls, events>>

\* _get_clients: the return statement, then the rest of the node
ReturnClients(t) ==
    /\ pc[t].at = "return"
    /\ CompleteNode(t, IF ReturnedKeys \subseteq llm_cache
                       THEN ScriptedApi ELSE KeyErrorApi)
    /\ calls' = IF ReturnedKeys \subseteq llm_cache
                THEN calls ELSE Append(calls, "KeyError")
    /\ UNCHANGED <<entry, events, llm_cache>>

NextConcurrent ==
    \E t \in Threads :
        \/ RunNode(t)
        \/ TestCache(t)
        \/ StoreClient(t)
        \/ ReturnClients(t)

SpecConcurrent == InitConcurrent /\ [][NextConcurrent]_vars

----
(* Two callers that start a turn on the same thread_id at the same time, one   *)
(* through run_graph and one through stream_graph. Each invocation loads the    *)
(* latest checkpoint of the thread once, when it starts, keeps the channel      *)
(* values in memory and puts a checkpoint after its input and after every node. *)
(* state.memory[c] holds the values of caller c, state.checkpoint the latest    *)
(* checkpoint of the thread, and calls lists the callers whose checkpoints were *)
(* put, in order. The clients are already cached (an earlier turn built them).  *)

Callers == {"run_graph", "stream_graph"}

SharedThread == "default"

\* the initial_state a caller hands to the graph
Input(caller, user_query) ==
    IF caller = "run_graph"
    THEN run_graph(user_query, "GDPR", SharedThread)
    ELSE stream_graph(user_query, "GDPR", SharedThread, None)

InitSameThread ==
    /\ entry = [c \in Callers |-> c]
    /\ \E q \in [Callers -> ConcurrentQueries] :
          state = [ memory |-> [c \in Callers |-> Input(c, q[c])],
                    checkpoint |-> None ]
    /\ pc = [c \in Callers |-> "START"]
    /\ trace = [c \in Callers |-> <<>>]
    /\ calls = <<>>
    /\ events = <<>>
    /\ llm_cache = get_clients({})

\* invoke / astream: the input is merged into the latest checkpoint of the
\* thread, if there is one, and the result is put as a checkpoint
LoadCheckpoint(c) ==
    /\ pc[c] = "START"
    /\ LET loaded == IF IsNone(state.checkpoint)
                     THEN state.memory[c]
                     ELSE Merge(Val(state.checkpoint), state.memory[c])
       IN  state' = [ memory |-> [state.memory EXCEPT ![c] = loaded],
                      checkpoint |-> Some(loaded) ]
    /\ pc' = [pc EXCEPT ![c] = "guardrail"]
    /\ calls' = Append(calls, c)
    /\ UNCHANGED <<entry, trace, events, llm_cache>>

\* a node of caller c completes: its update is merged into the values c holds
\* in memory, and these are put as the latest checkpoint of the thread
StepAndPut(c) ==
    /\ pc[c] \notin {"START", "END", "RAISED"}
    /\ LET merged == Merge(state.memory[c],
                           NodeUpdate(pc[c], state.memory[c], ScriptedApi))
       IN  /\ state' = [ memory |-> [state.memory EXCEPT ![c] = merged],
                         checkpoint |-> Some(merged) ]
           /\ pc' = [pc EXCEPT ![c] = NextNode(pc[c], merged)]
    /\ trace' = [trace EXCEPT ![c] = Append(@, pc[c])]
    /\ calls' = Append(calls, c)
    /\ UNCHANGED <<entry, events, llm_cache>>

NextSameThread ==
    \E c \in Callers :
        \/ LoadCheckpoint(c)
        \/ StepAndPut(c)

SpecSameThread == InitSameThread /\ [][NextSameThread]_vars

----
(* Generate and Tool Dispatch on caller-built states that hold pending         *)
(* tool_calls: the ReAct cycle llm -> tool_executor -> llm of the graph        *)

MaxPending == 2         \* most requests in a pending tool_calls list

\* every list of 1..MaxPending requests
PendingLists ==
    UNION { [1..n -> { ToolRequests[i] : i \in 1..Len(ToolRequests) }] :
              n \in 1..MaxPending }

\* states Generate is entered with, first attempt or retry, requests pending
ToolStates ==
    { [ AgentState("we lost patient data", "GDPR", "default", None, tc)
          EXCEPT !.route = "clear",
                 !.retrieved_context = <<"33">>,
                 !.retry_count = n,
                 !.validation_errors =
                     IF n = 0 THEN <<>> ELSE SubSeq(RuleViolations, 1, MaxErrors) ] :
        tc \in PendingLists, n \in 0..(MaxRetries - 1) }

InitTools ==
    /\ entry = "invoke"
    /\ state \in ToolStates
    /\ pc = "llm"
    /\ trace = <<>>
    /\ calls = <<>>
    /\ events = <<>>
    /\ llm_cache = {}

NextTools ==
    \/ Llm
    \/ ToolExecutor

SpecTools == InitTools /\ [][NextTools]_vars

----
(* node_governance applied to caller-built states: every risk tier, confidences *)
(* on both sides of the threshold, with and without needs_clarification, and   *)
(* no analysis at all                                                          *)

\* confidence_score values, in hundredths
GovernanceConfidences == {0, ConfidenceThreshold - 1, ConfidenceThreshold, 100}

GovernanceAnalyses ==
    { [ risk_level |-> r, confidence_score |-> c, needs_clarification |-> n,
        legal_basis |-> "Article 33(1)", scope_limitation |-> "N/A",
        summary |-> "Breach must be notified.", reasoning_map |-> <<"33(1)">> ] :
        r \in RiskLevels, c \in GovernanceConfidences, n \in BOOLEAN }

GovernanceStates ==
    { [ AgentState("we lost patient data", d, "default", None, <<>>)
          EXCEPT !.analysis = a ] :
        d \in Domains,
        a \in {None} \cup { Some(c) : c \in GovernanceAnalyses } }

InitGovernance ==
    /\ entry = "governance"
    /\ state \in GovernanceStates
    /\ pc = "governance"
    /\ trace = <<>>
    /\ calls = <<>>
    /\ events = <<>>
    /\ llm_cache = {}

NextGovernance == Governance

SpecGovernance == InitGovernance /\ [][NextGovernance]_vars

----
(* classify_decision applied to every combination of its arguments; here state *)
(* holds the arguments and, once the function has returned, its result         *)

\* confidence values, in hundredths
DecisionConfidences ==
    {0, 1, 50, ConfidenceThreshold - 1, ConfidenceThreshold, ConfidenceThreshold + 1,
     99, 100}

InitDecision ==
    /\ entry = "classify_decision"
    /\ \E c \in DecisionConfidences, r \in RiskLevels, b \in BOOLEAN :
          state = [ confidence |-> c, risk_level |-> r, requires_refusal |-> b,
                    decision |-> None ]
    /\ pc = "classify_decision"
    /\ trace = <<>>
    /\ calls = <<>>
    /\ events = <<>>
    /\ llm_cache = {}

ClassifyDecision ==
    /\ pc = "classify_decision"
    /\ state' = [ state EXCEPT !.decision =
                    Some(classify_decision(state.confidence, state.risk_level,
                                           state.requires_refusal)) ]
    /\ pc' = "END"
    /\ trace' = Append(trace, "classify_decision")
    /\ UNCHANGED <<entry, calls, events, llm_cache>>

NextDecision == ClassifyDecision

SpecDecision == InitDecision /\ [][NextDecision]_vars

----
(* node_validator applied to caller-built states: a parsable analysis, one that *)
(* ComplianceResponse rejects, and none at all, at every value retry_count has *)
(* when Validate is entered                                                    *)

ValidatorCandidates ==
    Analyses \cup { [ a EXCEPT !.risk_level = "severe" ] :
                      a \in { c \in Analyses : c.risk_level = "high" } }

ValidatorStates ==
    { [ AgentState(q, "GDPR", "default", None, <<>>)
          EXCEPT !.route = "clear",
                 !.retrieved_context = <<"33">>,
                 !.analysis = a,
                 !.retry_count = n ] :
        q \in {"what is personal data", "we lost patient data",
               "what is the fine for a breach"},
        a \in {None} \cup { Some(c) : c \in ValidatorCandidates },
        n \in 0..(MaxRetries - 1) }

InitValidator ==
    /\ entry = "validator"
    /\ state \in ValidatorStates
    /\ pc = "validator"
    /\ trace = <<>>
    /\ calls = <<>>
    /\ events = <<>>
    /\ llm_cache = {}

NextValidator == Validator

SpecValidator == InitValidator /\ [][NextValidator]_vars

----
(* Properties *)

Count(seq, x) == Cardinality({ i \in 1..Len(seq) : seq[i] = x })
Last(seq) == seq[Len(seq)]
Ran(node) == trace # <<>> /\ Last(trace) = node
Terminated == pc \in {"END", "RAISED"}
FromEntryPoint == entry \in {"run_graph", "stream_graph"}
HasType(fr) == "type" \in DOMAIN fr
IsAnalysisRecord(fr) == DOMAIN fr = DOMAIN blocked_response

\* C1: in every reachable state of a turn retry_count is at most 3, and the number
\* of Generate invocations so far is at most 3 + 1 plus the number of Tool Dispatch
\* runs.
C1_RetryBound ==
    /\ state.retry_count <= MaxRetries
    /\ Count(trace, "llm") <= MaxRetries + 1 + Count(trace, "tool_executor")

\* a turn that exhausted the retries after one Tool Dispatch re-entry
C1_Witness ==
    /\ pc = "fallback"
    /\ state.retry_count = MaxRetries
    /\ Count(trace, "tool_executor") = 1
    /\ Count(trace, "llm") = MaxRetries + 1

\* C2: the router after Validate is a total three-way decision: an empty error
\* list selects semantic_override whatever retry_count is, errors with
\* retry_count < 3 select llm, errors with retry_count >= 3 select fallback.
C2_ValidationRouter ==
    trace = <<"route_after_validation">> =>
        /\ state.validation_errors = <<>> => pc = "semantic_override"
        /\ (state.validation_errors # <<>> /\ state.retry_count < 3) => pc = "llm"
        /\ (state.validation_errors # <<>> /\ state.retry_count >= 3) => pc = "fallback"
        /\ pc \in {"semantic_override", "llm", "fallback"}

\* the router was given an empty error list together with an exhausted counter
C2_Witness ==
    /\ trace = <<"route_after_validation">>
    /\ state.validation_errors = <<>>
    /\ state.retry_count >= 3
    /\ pc = "semantic_override"

\* C3: every turn terminates (each node the executor selects runs to completion),
\* and Validate runs at most 3 times in a turn.
C3_Terminates ==
    <>(Terminated /\ Count(trace, "validator") <= MaxRetries)

\* a finished turn that went through the generation-validation cycle three times
C3_Witness ==
    /\ pc = "END"
    /\ Count(trace, "validator") = MaxRetries
    /\ Count(trace, "llm") >= MaxRetries

\* C4: for an input that matches a disallowed-intent pattern the turn ends at
\* Guardrail with route = "blocked" and the complete blocked payload, and no
\* other stage or external call happens; the check wins over the
\* general-conversation classification.
C4_BlockedShortCircuit ==
    (trace # <<>> /\ AnyIn(unethical_keywords, Lower(state.user_query))) =>
        /\ pc = "END"
        /\ trace = <<"guardrail">>
        /\ calls = <<>>
        /\ state.route = "blocked"
        /\ state.final_response = Some(blocked_response)

\* a blocked query that is also short and contains a greeting trigger ("hi" in "hide")
C4_Witness ==
    /\ pc = "END"
    /\ state.user_query = "how can i hide a data breach"
    /\ WordCount(state.user_query) < GeneralMaxWords
    /\ AnyIn(general_triggers, Lower(state.user_query))
    /\ state.route = "blocked"

InsufficientContext == Some([type |-> "error", message |-> "Insufficient context found."])

\* C5 (as claimed): when the GDPR retrieval yields nothing the turn is over after
\* Retrieve: route = "blocked", final_response is the insufficient-context error,
\* and no further stage (Clarify sub-call, Generate) is selected.
C5_EmptyRetrievalFailsTurn ==
    (FromEntryPoint /\ Ran("retrieve") /\ pc # "RAISED"
        /\ state.domain = "GDPR" /\ state.retrieved_context = <<>>) =>
        /\ pc = "END"
        /\ state.route = "blocked"
        /\ state.final_response = InsufficientContext

\* C6 (as claimed): once route is "blocked" no further stage is selected.
C6_BlockedEndsTurn ==
    (FromEntryPoint /\ state.route = "blocked") => pc = "END"

\* C7 (as claimed): once final_response is set the turn is over.
C7_FinalResponseEndsTurn ==
    (FromEntryPoint /\ state.final_response # None) => pc = "END"

\* the discriminator a caller reads from a payload: its "type" key, an untyped
\* Analysis Record being the answer form
Discriminator(fr) == IF HasType(fr) THEN fr.type ELSE "answer"

C9_NoUnhandledException ==
    entry = "run_graph" => pc # "RAISED"

\* C10 (as claimed): when user_selections is set (not None), Clarify makes no
\* generative sub-call, appends the selections to retrieved_context, sets
\* route = "clear", leaves final_response alone, and Generate is next.
C10_SelectionsSkipClarify ==
    [][ (pc = "clarify" /\ ~IsNone(state.user_selections)) =>
            /\ pc' = "llm"
            /\ calls' = calls
            /\ state'.route = "clear"
            /\ state'.final_response = state.final_response
            /\ state'.retrieved_context =
                   state.retrieved_context \o <<"[USER CLARIFICATION]">>
                       \o Val(state.user_selections) ]_vars

\* C10 (amended): the same for a non-empty user_selections list.
C10_SelectionsSkipClarifyAmended ==
    [][ (pc = "clarify" /\ ~IsNone(state.user_selections)
            /\ Val(state.user_selections) # <<>>) =>
            /\ pc' = "llm"
            /\ calls' = calls
            /\ state'.route = "clear"
            /\ state'.final_response = state.final_response
            /\ state'.retrieved_context =
                   state.retrieved_context \o <<"[USER CLARIFICATION]">>
                       \o Val(state.user_selections) ]_vars

\* Clarify has run on a query that is no definition query, with selections present
C10_Witness ==
    /\ Ran("clarify")
    /\ pc = "llm"
    /\ state.user_query = "we lost patient data"
    /\ Truthy(state.user_selections)
    /\ state.route = "clear"
    /\ "clarify_llm" \notin { calls[i] : i \in 1..Len(calls) }

InTrace(node) == \E i \in 1..Len(trace) : trace[i] = node

\* C11: when Clarify answers "depends" it keeps at most 4 of the model-ranked
\* options in their order, appends the two fixed options (free text, then skip) as
\* the last two entries, sets final_response to the clarification payload with
\* those options, and the turn is over without Generate, Validate, Semantic
\* Override, Governance or Fallback having run.
C11_DependsEndsTurn ==
    (Ran("clarify") /\ state.route = "depends") =>
        /\ pc = "END"
        /\ ~IsNone(state.clarification_options)
        /\ LET options == Val(state.clarification_options)
               n == Len(options) - 2
           IN  /\ n \in 1..KeepOptions
               /\ SubSeq(options, 1, n) = SubSeq(ModelOptions, 1, n)
               /\ options[n + 1] = opt_custom
               /\ options[n + 2] = opt_unknown
               /\ ~IsNone(state.final_response)
               /\ Val(state.final_response).type = "clarification"
               /\ Val(state.final_response).options = options
        /\ \A node \in {"llm", "validator", "semantic_override", "governance",
                         "fallback", "tool_executor"} : ~InTrace(node)

\* a turn that ended in Clarify with the full 4 + 2 options
C11_Witness ==
    /\ pc = "END"
    /\ Ran("clarify")
    /\ state.route = "depends"
    /\ Len(Val(state.clarification_options)) = KeepOptions + 2
    /\ Last(calls) = "clarify_llm"

\* C12: Clarify fails open: when its generative sub-call raises, Clarify sets
\* route = "clear", leaves final_response and clarification_options as they
\* were, and Generate is the next stage.
C12_ClarifyFailsOpen ==
    [][ (pc = "clarify" /\ calls' = calls \o <<"clarify_llm", "raised">>) =>
            /\ state'.route = "clear"
            /\ state'.final_response = state.final_response
            /\ state'.clarification_options = state.clarification_options
            /\ state'.clarification_options = None
            /\ pc' = "llm" ]_vars

\* Clarify has just run and its sub-call raised
C12_Witness ==
    /\ Ran("clarify")
    /\ Len(calls) >= 2
    /\ Last(calls) = "raised"
    /\ calls[Len(calls) - 1] = "clarify_llm"
    /\ state.route = "clear"
    /\ pc = "llm"

\* the last Validate pass of the turn returned no errors
ValidationPassed == pc = "semantic_override" \/ InTrace("semantic_override")

\* C13: outcome of the retry loop. While every Validate pass so far returned
\* errors, retry_count equals the number of passes, and a failing pass is followed
\* by Generate below 3 and by Fallback at 3; when a pass returns no errors after
\* k <= 2 failing ones, retry_count stays at k and Semantic Override follows,
\* Fallback never running; Fallback runs only with three failing passes and
\* retry_count = 3, and leaves an error payload that reports that count and the
\* error list of the last pass.
C13_RetryOutcome ==
    /\ ValidationPassed =>
          /\ Count(trace, "validator") = state.retry_count + 1
          /\ state.retry_count <= MaxRetries - 1
          /\ state.validation_errors = <<>>
          /\ ~InTrace("fallback") /\ pc # "fallback"
    /\ ~ValidationPassed => Count(trace, "validator") = state.retry_count
    /\ (Ran("validator") /\ ~ValidationPassed) =>
          /\ state.validation_errors # <<>>
          /\ pc = IF state.retry_count < MaxRetries THEN "llm" ELSE "fallback"
    /\ (pc = "fallback" \/ InTrace("fallback")) =>
          /\ state.retry_count = MaxRetries
          /\ Count(trace, "validator") = MaxRetries
          /\ state.validation_errors # <<>>
    /\ Ran("fallback") =>
          /\ pc = "END"
          /\ state.final_response =
                 Some([ type |-> "error",
                        message |-> "Analysis failed after retries",
                        retry_count |-> MaxRetries,
                        errors |-> state.validation_errors ])

\* two failing Validate passes were followed by a passing one
C13_Witness ==
    /\ pc = "semantic_override"
    /\ state.retry_count = MaxRetries - 1
    /\ Count(trace, "validator") = MaxRetries
    /\ Count(trace, "llm") >= MaxRetries

\* C14: Semantic Override is idempotent: applied to a state whose analysis is the
\* output of a previous application (same query and domain), it returns the same
\* analysis, and changes no other field.
C14_OverrideIdempotent ==
    [][ (pc = "semantic_override" /\ Len(trace) >= 1) => state' = state ]_vars

\* the override has been applied twice to a CCPA analysis it rewrote
C14_Witness ==
    /\ entry = "semantic_override"
    /\ Len(trace) = 2
    /\ state.domain = "CCPA"
    /\ state.user_query = "can we refuse to delete data after a sale"
    /\ ~IsNone(state.analysis)
    /\ Val(state.analysis).legal_basis = "California Civil Code 1798.140(ad)"
    /\ Val(state.analysis).risk_level = "medium"

\* the stages that have completed: a stage that raised has not
Completed == IF pc = "RAISED" THEN SubSeq(trace, 1, Len(trace) - 1) ELSE trace

IsNodeEvent(c) == "event" \in DOMAIN c /\ c.event = "node"

\* one node event per completed stage, in execution order, and no other node event
NodeEventsFollowTrace ==
    /\ Len(events) >= Len(Completed)
    /\ \A i \in 1..Len(events) :
          IF i <= Len(Completed)
          THEN IsNodeEvent(events[i]) /\ events[i].node = Completed[i]
          ELSE ~IsNodeEvent(events[i])

\* C15 (as claimed): a consumer of stream_graph receives exactly one node event per
\* completed stage, in execution order; the terminal event carries the full
\* final_response of the turn and nothing at all is yielded after it.
C15_TerminalEventIsLast ==
    entry = "stream_graph" =>
        /\ NodeEventsFollowTrace
        /\ \A i \in 1..Len(events) :
              IsTerminalEvent(events[i]) =>
                 /\ events[i].event = "result" =>
                        events[i].data = Val(state.final_response)
                 /\ i = Len(events)

\* C15 (amended): as above, except that the terminal event (the result chunk with
\* the full final_response, or the error chunk when a stage raised) is followed by
\* exactly one more chunk, the "[DONE]" sentinel, which is the last one.
C15_TerminalEventThenDone ==
    entry = "stream_graph" =>
        /\ NodeEventsFollowTrace
        /\ \A i \in 1..Len(events) :
              /\ IsTerminalEvent(events[i]) =>
                    /\ i = Len(Completed) + 1
                    /\ events[i].event = "result" =>
                          (pc = "END" /\ events[i].data = Val(state.final_response))
                    /\ events[i].event = "error" => pc = "RAISED"
                    /\ \/ i = Len(events)
                       \/ i + 1 = Len(events) /\ events[i + 1] = DoneChunk
              /\ events[i] = DoneChunk =>
                    /\ i = Len(events)
                    /\ i = Len(Completed) + 2
                    /\ IsTerminalEvent(events[i - 1])

\* a stream that reported a turn with a retry, its Governance result and the sentinel
C15_Witness ==
    /\ entry = "stream_graph"
    /\ pc = "END"
    /\ Ran("governance")
    /\ Count(trace, "llm") >= 2
    /\ Len(events) = Len(trace) + 2
    /\ events[Len(trace) + 1] = [event |-> "result", data |-> Val(state.final_response)]
    /\ Last(events) = DoneChunk

\* C16: the tool dispatcher never raises: Tool Dispatch always completes, hands
\* over to Generate with tool_calls cleared, and appends one tool message per
\* request, in order, whose content is a string: the unknown-tool error for a
\* name not in the registry, the execution error for a registered tool that
\* raised or was called with arguments it does not accept.
C16_DispatcherNeverRaises ==
    [][ pc = "tool_executor" =>
            /\ pc' = "llm"
            /\ state'.tool_calls = <<>>
            /\ Len(state'.messages) = Len(state.messages) + Len(state.tool_calls)
            /\ \A i \in 1..Len(state.tool_calls) :
                  LET tc == state.tool_calls[i]
                      m == state'.messages[Len(state.messages) + i]
                  IN  /\ m.role = "tool"
                      /\ m.name = tc.name
                      /\ m.content \in {"Error: Unknown tool", "Error executing tool",
                                         "No articles found matching",
                                         "Regulation Search Results"}
                      /\ tc.name \notin TOOL_REGISTRY => m.content = "Error: Unknown tool"
                      /\ (tc.name \in TOOL_REGISTRY /\ tc.arguments = "bad_keyword")
                            => m.content = "Error executing tool" ]_vars

\* Tool Dispatch has completed on a request whose tool function raised
C16_Witness ==
    /\ Ran("tool_executor")
    /\ pc = "llm"
    /\ state.tool_calls = <<>>
    /\ Last(state.messages) = [role |-> "tool", content |-> "Error executing tool",
                                name |-> "search_regulations"]

IsPrefix(a, b) == Len(a) <= Len(b) /\ SubSeq(b, 1, Len(a)) = a

\* the keys each node function can return (nodes.py, the return statements)
WrittenKeys ==
    [ guardrail         |-> {"route", "final_response"},
      chat              |-> {"final_response"},
      retrieve          |-> {"retrieved_context", "final_response", "route"},
      clarify           |-> {"retrieved_context", "route", "clarification_options",
                             "final_response"},
      llm               |-> {"final_response", "route", "analysis", "validation_errors",
                             "messages"},
      tool_executor     |-> {"messages", "tool_calls"},
      validator         |-> {"validation_errors", "retry_count"},
      semantic_override |-> {"analysis"},
      governance        |-> {"final_response"},
      fallback          |-> {"final_response"} ]

\* C17: state updates are merged per key. Across every step of a thread (stage
\* updates within a turn and the input of a further turn) the previous messages
\* are a prefix of the new messages; a stage leaves every key it does not return
\* unchanged; the other keys are overwritten, not accumulated: a Validate pass
\* leaves exactly its own error list, Tool Dispatch an empty tool_calls, and the
\* input of a further turn replaces every key except messages.
C17_MergePerKey ==
    [][ /\ IsPrefix(state.messages, state'.messages)
        /\ pc \in DOMAIN WrittenKeys =>
              \A k \in DOMAIN state \ WrittenKeys[pc] : state'[k] = state[k]
        /\ (pc = "validator" /\ pc' # "RAISED") =>
              state'.validation_errors \in ErrorLists
        /\ (pc = "tool_executor" /\ pc' # "RAISED") => state'.tool_calls = <<>>
        /\ (pc \in {"END", "RAISED"} /\ pc' = "guardrail") =>
              /\ state'.messages = state.messages
              /\ state'.tool_calls = <<>>
              /\ state'.validation_errors = <<>>
              /\ state'.retry_count = 0
              /\ state'.route = ""
              /\ state'.retrieved_context = <<>>
              /\ state'.analysis = None
              /\ state'.final_response = None
              /\ state'.clarification_options = None ]_vars

\* Generate has run in a further turn of a thread that already held the two
\* messages of an earlier turn
C17_Witness ==
    /\ Count(trace, "llm") = 1
    /\ Ran("llm")
    /\ state.retry_count = 0
    /\ Len(state.messages) = 4
    /\ state.messages[3].role = "system"

\* C18: failover inside a generative call. The models are called in list order;
\* every call before the last one failed with an ordinary error; a success or a
\* schema mismatch is the last call (no later model is called); an ordinary
\* failure is the last call only when the list is exhausted. In Generate a schema
\* mismatch and an exhausted list both end the turn with route = "blocked" and a
\* final_response of type error, retry_count, validation_errors and analysis
\* staying as they were.
C18_Failover ==
    [][ (entry = "safe_api_call" /\ pc = "llm") =>
          LET n == Len(calls')
              last == calls'[n].outcome
          IN  /\ n \in 1..NumModels
              /\ \A i \in 1..n : calls'[i].model = i
              /\ \A i \in 1..(n - 1) : calls'[i].outcome = "error"
              /\ last = "error" => n = NumModels
              /\ last = "ok" =>
                    \/ /\ pc' \in {"validator", "tool_executor"}
                       /\ ~IsNone(state'.analysis)
                       /\ state'.route = state.route
                    \/ \* the call handed back a plain string
                       /\ pc' = "END"
                       /\ state'.route = "blocked"
                       /\ Val(state'.final_response).type = "error"
              /\ last # "ok" =>
                    /\ pc' = "END"
                    /\ state'.route = "blocked"
                    /\ Val(state'.final_response).type = "error"
                    /\ Val(state'.final_response).detail =
                          IF last = "schema_error" THEN "Schema Validation Error"
                          ELSE "[OUTAGE] SERVICE OUTAGE"
                    /\ state'.retry_count = state.retry_count
                    /\ state'.validation_errors = state.validation_errors
                    /\ state'.analysis = state.analysis
                    /\ state'.messages = state.messages ]_vars

\* a retry of Generate in which the second model answered with a schema mismatch
C18_Witness ==
    /\ entry = "safe_api_call"
    /\ pc = "END"
    /\ calls = << [model |-> 1, outcome |-> "error"],
                  [model |-> 2, outcome |-> "schema_error"] >>
    /\ state.retry_count = MaxRetries - 1
    /\ state.route = "blocked"

\* the classification the Guardrail is claimed to compute
IsDisallowed(q) == AnyIn(unethical_keywords, Lower(q))
IsGreeting(q) == WordCount(q) < GeneralMaxWords /\ AnyIn(general_triggers, Lower(q))

\* C19 (as claimed): right after Guardrail, route is "general" exactly for an input
\* that is not disallowed, has fewer than 10 words and matches the greeting
\* lexicon, and "analysis" for every other input that is not blocked; Chat runs
\* only in such a turn, exactly once, as the last stage, and leaves a
\* final_response of type chat, neither Retrieve nor Generate having run.
C19_GeneralRoute ==
    /\ trace = <<"guardrail">> =>
          LET q == state.user_query
          IN  /\ state.route = "general" <=> (~IsDisallowed(q) /\ IsGreeting(q))
              /\ state.route = "analysis" <=> (~IsDisallowed(q) /\ ~IsGreeting(q))
    /\ (pc = "chat" \/ InTrace("chat")) =>
          /\ state.route = "general"
          /\ ~IsDisallowed(state.user_query) /\ IsGreeting(state.user_query)
    /\ InTrace("chat") =>
          /\ trace = <<"guardrail", "chat">>
          /\ pc = "END"
          /\ ~IsNone(state.final_response)
          /\ Val(state.final_response).type = "chat"
          /\ \A i \in 1..Len(calls) : calls[i] = "chat_llm"


\* C20: two turns running at the same time on distinct thread_ids do not
\* interfere: each ends normally, with the persisted state (final_response,
\* retry_count and route included) that the turn produces when run alone.
TurnOver(t) == pc[t].node \in {"END", "RAISED"}

C20_TurnsIsolated ==
    \A t \in Threads :
        TurnOver(t) =>
            /\ pc[t].node = "END"
            /\ state[t] = RunAlone(state[t].user_query, state[t].domain, t)


\* C21: checkpoint writes are serialized per thread_id: the checkpoints of two
\* turns started on the same thread_id are never interleaved (all puts of one
\* turn come before all puts of the other), and each caller that has finished
\* holds the final_response of its own query.
PutsSerialized ==
    \A i, j, k \in 1..Len(calls) :
        (i < j /\ j < k /\ calls[i] = calls[k]) => calls[j] = calls[i]

OwnResult(c) ==
    state.memory[c].final_response =
        RunAlone(state.memory[c].user_query, "GDPR", SharedThread).final_response

C21_WritesSerialized ==
    /\ PutsSerialized
    /\ \A c \in Callers : pc[c] = "END" => OwnResult(c)


\* C22: the clients are built lazily and at most once per process, and every
\* call of _get_clients returns a fully populated (base, instructor, models)
\* triple, also when several turns make their first call at the same time.
C22_ClientsBuiltOnce ==
    /\ Count(calls, "get_llm_client") <= 1
    /\ Count(calls, "KeyError") = 0


\* C23: the stages of a turn start at guardrail, run one at a time, and every
\* consecutive pair of stages is an edge of the declared graph; a turn ends
\* only where the declared graph has an edge to end (or where a stage raised).
DeclaredEdges ==
    [ guardrail |-> {"END", "chat", "retrieve"},
      retrieve |-> {"clarify"},
      clarify |-> {"END", "llm"},
      llm |-> {"END", "tool_executor", "validator"},
      tool_executor |-> {"llm"},
      validator |-> {"semantic_override", "llm", "fallback"},
      semantic_override |-> {"governance"},
      governance |-> {"END"},
      fallback |-> {"END"},
      chat |-> {"END"} ]

C23_StagesFollowGraph ==
    IF trace = <<>>
    THEN pc = "guardrail"
    ELSE /\ trace[1] = "guardrail"
         /\ \A i \in 1..(Len(trace) - 1) : trace[i + 1] \in DeclaredEdges[trace[i]]
         /\ pc # "RAISED" => pc \in DeclaredEdges[Last(trace)]

\* a finished turn that took the Tool Dispatch back-edge and the retry edge
C23_Witness ==
    /\ pc = "END"
    /\ Ran("governance")
    /\ Count(trace, "tool_executor") = 1
    /\ Count(trace, "validator") = 2


\* C24: Tool Dispatch runs only when tool_calls is non-empty after Generate; it
\* appends exactly one tool-role message per pending request, in request order,
\* to messages, empties tool_calls, changes no other field, and the next stage
\* is always Generate.
C24_ToolDispatchFrame ==
    [][ pc = "tool_executor" =>
            /\ Ran("llm")
            /\ state.tool_calls # <<>>
            /\ SubSeq(state'.messages, 1, Len(state.messages)) = state.messages
            /\ [ i \in 1..(Len(state'.messages) - Len(state.messages)) |->
                   LET m == state'.messages[Len(state.messages) + i]
                   IN  <<m.role, m.name>> ]
                 = [ i \in 1..Len(state.tool_calls) |->
                       <<"tool", state.tool_calls[i].name>> ]
            /\ state'.tool_calls = <<>>
            /\ [ state' EXCEPT !.messages = state.messages,
                               !.tool_calls = state.tool_calls ] = state
            /\ pc' = "llm" ]_vars

\* Tool Dispatch has answered two different requests during a retry
C24_Witness ==
    /\ Ran("tool_executor")
    /\ state.retry_count > 0
    /\ Len(state.messages) >= 2
    /\ "name" \in DOMAIN state.messages[Len(state.messages) - 1]
    /\ state.messages[Len(state.messages) - 1].name = "unknown_tool"
    /\ Last(state.messages).name = "search_regulations"


\* C25: in a turn started through run_graph or stream_graph, a Generate call in
\* which the model requests a capability invocation (the provider reports a tool
\* call that is not the response schema) yields a non-empty tool_calls instead
\* of an analysis, and Tool Dispatch is the next stage.
ToolCallRejected(s) ==
    /\ ~IsNone(s.final_response)
    /\ Val(s.final_response) = [type |-> "error", message |-> "API Error",
                                detail |-> "Schema Validation Error"]

C25_ToolRequestDispatched ==
    [][ (/\ pc = "llm"
         /\ entry \in {"run_graph", "stream_graph"}
         /\ ToolCallRejected(state'))
            => (state'.tool_calls # <<>> /\ pc' = "tool_executor") ]_vars


\* C26: Governance shapes final_response from the decision. With
\* needs_clarification set the analysis is returned unchanged whatever the policy
\* would decide; otherwise auto-approve returns the analysis as it is,
\* hold-for-review returns a review_required envelope with the reason, the risk
\* level and the confidence next to all analysis fields, and block returns a
\* blocked result with the reason; with no analysis the result is an error.
C26_GovernanceShapesResult ==
    [][ pc = "governance" =>
          /\ ~IsNone(state'.final_response)
          /\ LET fr == Val(state'.final_response)
             IN  IF ~Truthy(state.analysis)
                 THEN fr = [type |-> "error", message |-> "No analysis for governance."]
                 ELSE LET a == Val(state.analysis)
                          d == classify_decision(a.confidence_score, a.risk_level, FALSE)
                      IN  IF a.needs_clarification \/ d.status = "auto_approved"
                          THEN fr = a
                          ELSE IF d.status = "review_required"
                          THEN /\ DOMAIN fr = DOMAIN a \cup {"type", "reason", "confidence"}
                               /\ fr.type = "review_required"
                               /\ fr.reason = d.reason
                               /\ fr.risk_level = a.risk_level
                               /\ fr.confidence = a.confidence_score
                               /\ \A k \in DOMAIN a : fr[k] = a[k]
                          ELSE fr = [type |-> "blocked", reason |-> d.reason]
          /\ pc' = "END" ]_vars

\* Governance returned an analysis of critical risk untouched because it asks
\* for clarification
C26_Witness ==
    /\ entry = "governance"
    /\ Ran("governance")
    /\ ~IsNone(state.analysis)
    /\ Val(state.analysis).needs_clarification
    /\ Val(state.analysis).risk_level = "critical"
    /\ state.final_response = state.analysis


\* C27: classify_decision decides in a fixed priority order: forced block gives
\* block whatever the confidence and risk; otherwise risk tier critical gives
\* hold-for-review; otherwise a confidence below 0.75 gives hold-for-review;
\* otherwise auto-approve. The decision always carries a reason and echoes the
\* confidence and the risk tier it was given.
C27_DecisionPriority ==
    (entry = "classify_decision" /\ pc = "END") =>
        LET d == Val(state.decision)
        IN  /\ d.status = IF state.requires_refusal THEN "blocked"
                          ELSE IF state.risk_level = "critical" THEN "review_required"
                          ELSE IF state.confidence < 75 THEN "review_required"
                          ELSE "auto_approved"
            /\ d.reason # ""
            /\ d.confidence = state.confidence
            /\ d.risk_level = state.risk_level

\* a forced block decided for a critical-risk, low-confidence input
C27_Witness ==
    /\ entry = "classify_decision"
    /\ pc = "END"
    /\ state.requires_refusal
    /\ state.risk_level = "critical"
    /\ state.confidence < 75
    /\ Val(state.decision).status = "blocked"


C29_RetryPromptCarriesCorrection ==
    [][ (pc = "llm" /\ pc' \in {"validator", "tool_executor"}) =>
          LET prompt == SubSeq(state'.messages, Len(state.messages) + 1,
                               Len(state'.messages))
          IN  /\ Len(prompt) >= 2
              /\ prompt[1].role = "system"
              /\ prompt[2] = [role |-> "user", context |-> state.retrieved_context,
                              query |-> state.user_query]
              /\ IF Ran("validator")
                 THEN /\ state.retry_count > 0
                      /\ state.validation_errors # <<>>
                      /\ Len(prompt) = 4
                      /\ prompt[3] = [role |-> "assistant",
                                      analysis |-> Val(state.analysis)]
                      /\ prompt[4] = [role |-> "user",
                                      errors |-> state.validation_errors]
                 ELSE /\ state.retry_count = 0
                      /\ Len(prompt) = 2
              /\ state'.validation_errors = <<>> ]_vars

\* the second retry of a turn produced a candidate from a prompt with a correction
C29_Witness ==
    /\ pc = "validator"
    /\ Ran("llm")
    /\ state.retry_count = 2
    /\ state.validation_errors = <<>>
    /\ Len(state.messages) >= 4
    /\ "errors" \in DOMAIN Last(state.messages)
    /\ Last(state.messages).errors # <<>>


\* C30: every stream_graph run ends with exactly one terminal event, after the
\* node events of all completed stages and followed only by the "[DONE]"
\* sentinel as the last chunk: a result event when the graph ran to completion
\* (with the turn's final_response, or the 'No response generated' error when
\* none was set), the error event and no result event when a stage raised.
StreamOver ==
    /\ pc \in {"END", "RAISED"}
    /\ Len(events) = Len(Completed) + 2
    /\ \A i \in 1..Len(Completed) : IsNodeEvent(events[i])
    /\ events[Len(Completed) + 1] =
          IF pc = "RAISED"
          THEN [event |-> "error",
                data |-> [type |-> "error", message |-> "exception"]]
          ELSE IF IsNone(state.final_response)
          THEN [event |-> "result",
                data |-> [type |-> "error", message |-> "No response generated."]]
          ELSE [event |-> "result", data |-> Val(state.final_response)]
    /\ events[Len(Completed) + 2] = DoneChunk

C30_StreamEndsWithOneTerminal ==
    entry = "stream_graph" => <>[]StreamOver

\* the stream of a turn whose Chat stage raised: one node event, the error event
\* and the sentinel
C30_Witness ==
    /\ entry = "stream_graph"
    /\ pc = "RAISED"
    /\ trace = <<"guardrail", "chat">>
    /\ Len(events) = 3
    /\ events[2].event = "error"
    /\ events[3] = DoneChunk

====
